---- MODULE Spec2Model ----
(***************************************************************************)
(* SMBIOS table generation of lib/smbios.c: the string-table packer, the   *)
(* sysinfo / devicetree resolver, the structure writers, the assembler     *)
(* write_smbios_table() and smbios_update_version().                       *)
(*                                                                         *)
(* Memory is a byte array.  C strings are sequences of non-zero bytes; the *)
(* fixed fields of an emitted structure are kept as a record (their byte   *)
(* layout lives in include/smbios.h), its string area is kept byte for     *)
(* byte in mem.                                                            *)
(***************************************************************************)
EXTENDS Integers, Sequences, FiniteSets, TLC

VARIABLES
    w,              \* the environment of the run: devices, facts, devicetree, caller's buffer
    pc,             \* position of the caller: idle, w 0..7, entry, done, pool or prop
    mem,            \* the caller's buffer, address -> byte
    ctx,            \* struct smbios_ctx
    addr,           \* write_smbios_table: addr (the output cursor)
    len,            \* write_smbios_table: len
    handle,         \* write_smbios_table: handle
    out,            \* the structures emitted so far, in order (their fixed fields)
    cache_hdl,      \* the sysinfo driver's cache-handle array (SYSINFO_ID_SMBIOS_CACHE_HANDLE)
    smbios_version, \* gd->smbios_version
    ret,            \* what the last call returned to the caller
    detects,        \* number of sysinfo_detect() calls
    calls           \* the calls made on the pool under test, with what they returned

vars == <<w, pc, mem, ctx, addr, len, handle, out, cache_hdl, smbios_version,
          ret, detects, calls>>

----------------------------------------------------------------------------
(* Bounds of the model *)

\* smbios_add_string() calls on one pool
MaxAdds == 3
\* length of the strings handed to smbios_add_string() in the packer runs
MaxStrLen == 2
\* bytes of the caller's buffer
MemSize == 480

----------------------------------------------------------------------------
(* Bytes and C strings *)

\* a char * that is NULL
NULLSTR == <<-1>>
\* a pointer that is NULL
NULLPTR == -1

\* the two letters the packer runs build their strings from ('a', 'b')
Alphabet == {97, 98}

RECURSIVE StrsUpTo(_)
StrsUpTo(n) ==
    IF n = 0 THEN {<<>>}
    ELSE LET S == StrsUpTo(n - 1)
         IN  S \cup {Append(s, c) : s \in {x \in S : Len(x) = n - 1}, c \in Alphabet}

\* F applied to the value of v: v is evaluated once, however often F uses it
Let(v, F(_)) == CHOOSE r \in {F(x) : x \in {v}} : TRUE

RECURSIVE Rep(_, _)
Rep(c, n) == IF n = 0 THEN <<>> ELSE <<c>> \o Rep(c, n - 1)

\* strlen(p) for the C string at address p of m
RECURSIVE strlen(_, _)
strlen(m, p) == IF m[p] = 0 THEN 0 ELSE 1 + strlen(m, p + 1)

\* strnlen(p, max)
RECURSIVE strnlen(_, _, _)
strnlen(m, p, max) ==
    IF max = 0 \/ m[p] = 0 THEN 0 ELSE 1 + strnlen(m, p + 1, max - 1)

\* the C string at address p of m, without its terminator
CStr(m, p) ==
    Let(<<m, p>>, LAMBDA x : [i \in 1..strlen(x[1], x[2]) |-> x[1][x[2] + i - 1]])

\* memcpy(p, bytes, Len(bytes))
MemWrite(m, p, bytes) ==
    Let(<<m, p, bytes>>, LAMBDA x :
        [a \in DOMAIN x[1] |->
            IF a >= x[2] /\ a < x[2] + Len(x[3]) THEN x[3][a - x[2] + 1] ELSE x[1][a]])

\* memset(p, 0, n)
MemZero(m, p, n) ==
    Let(<<m, p, n>>, LAMBDA x :
        [a \in DOMAIN x[1] |-> IF a >= x[2] /\ a < x[2] + x[3] THEN 0 ELSE x[1][a]])

----------------------------------------------------------------------------
(* String Table Packer *)

\* smbios_set_eos()
smbios_set_eos(c, eos) ==
    [c EXCEPT !.eos = eos, !.next_ptr = eos, !.last_str = NULLPTR]

\* The loop of smbios_add_string(), at pointer p with string number i.  A
\* string start holding \0 is taken for the end of the pool: the string is
\* copied there and terminated, next_ptr is set behind it and the pool is
\* closed with a second \0.
RECURSIVE AddStringFrom(_, _, _, _)
AddStringFrom(c, str, p0, i0) ==
    Let(<<p0, i0>>, LAMBDA x :
        LET p == x[1]
            i == x[2]
        IN  IF c.mem[p] = 0
            THEN LET np == p + Len(str) + 1
                 IN  [c   |-> [c EXCEPT !.mem = MemWrite(MemWrite(c.mem, p, str \o <<0>>),
                                                         np, <<0>>),
                                        !.last_str = p, !.next_ptr = np],
                      ret |-> i]
            ELSE IF CStr(c.mem, p) = str
            THEN [c |-> [c EXCEPT !.last_str = p], ret |-> i]
            ELSE AddStringFrom(c, str, p + strlen(c.mem, p) + 1, i + 1))

\* smbios_add_string(): c is the context together with the memory
smbios_add_string(c0, str0) ==
    Let(<<c0, str0>>, LAMBDA x :
        IF x[2] = NULLSTR THEN [c |-> x[1], ret |-> 0]
        ELSE AddStringFrom(x[1], x[2], x[1].eos, 1))

\* smbios_string_table_len()
smbios_string_table_len(c) ==
    IF c.next_ptr = c.eos THEN 2 ELSE (c.next_ptr + 1) - c.eos

----------------------------------------------------------------------------
(* Program constants *)

SYSINFO_CACHE_LVL_MAX == 3
\* strnlen() limit of smbios_update_version(), buffer size of sysinfo strings
SMBIOS_STR_MAX == 64
\* sizeof(u16)
SizeofU16 == 2
\* the delimiter of get_str_from_dt(): ','
Comma == 44
\* CONFIG_OF_CONTROL: the devicetree is the configuration source of the build
CONFIG_OF_CONTROL == TRUE
\* -ENOENT and -ENOSPC
ENOENT == 2
ENOSPC == 28

\* enum sysinfo_id up to the cache block, in declaration order (NONE is 0)
sysinfo_id ==
    << "NONE",
       "BIOS_VENDOR", "BIOS_VER", "BIOS_REL_DATE",
       "SYSTEM_MANUFACTURER", "SYSTEM_PRODUCT", "SYSTEM_VERSION", "SYSTEM_SERIAL",
       "SYSTEM_WAKEUP", "SYSTEM_SKU", "SYSTEM_FAMILY",
       "BASEBOARD_MANUFACTURER", "BASEBOARD_PRODUCT", "BASEBOARD_VERSION",
       "BASEBOARD_SERIAL", "BASEBOARD_ASSET_TAG", "BASEBOARD_FEATURE",
       "BASEBOARD_CHASSIS_LOCAT", "BASEBOARD_TYPE", "BASEBOARD_OBJS_NUM",
       "BASEBOARD_OBJS_HANDLE",
       "ENCLOSURE_MANUFACTURER", "ENCLOSURE_VERSION", "ENCLOSURE_SERIAL",
       "ENCLOSURE_ASSET_TAG", "ENCLOSURE_TYPE", "ENCLOSURE_BOOTUP", "ENCLOSURE_POW",
       "ENCLOSURE_THERMAL", "ENCLOSURE_SECURITY", "ENCLOSURE_OEM", "ENCLOSURE_HEIGHT",
       "ENCLOSURE_POWCORE_NUM", "ENCLOSURE_ELEMENT_CNT", "ENCLOSURE_ELEMENT_LEN",
       "ENCLOSURE_ELEMENTS", "ENCLOSURE_SKU",
       "PROCESSOR_SOCKET", "PROCESSOR_TYPE", "PROCESSOR_MANUFACT", "PROCESSOR_ID",
       "PROCESSOR_VERSION", "PROCESSOR_VOLTAGE", "PROCESSOR_EXT_CLOCK",
       "PROCESSOR_MAX_SPEED", "PROCESSOR_CUR_SPEED", "PROCESSOR_STATUS",
       "PROCESSOR_UPGRADE", "PROCESSOR_SN", "PROCESSOR_ASSET_TAG", "PROCESSOR_PN",
       "PROCESSOR_CORE_CNT", "PROCESSOR_CORE_EN", "PROCESSOR_THREAD_CNT",
       "PROCESSOR_CHARA", "PROCESSOR_FAMILY", "PROCESSOR_FAMILY2",
       "PROCESSOR_CORE_CNT2", "PROCESSOR_CORE_EN2", "PROCESSOR_THREAD_CNT2",
       "PROCESSOR_THREAD_EN",
       "CACHE_LEVEL", "CACHE_HANDLE", "CACHE_INFO_START" >>

\* SYSINFO_ID_SMBIOS_<name>
SID(name) == (CHOOSE i \in DOMAIN sysinfo_id : sysinfo_id[i] = name) - 1

\* the cache attributes, each a block of SYSINFO_CACHE_LVL_MAX ids from
\* SYSINFO_ID_SMBIOS_CACHE_INFO_START on
cache_attr ==
    << "SOCKET", "CONFIG", "MAX_SIZE", "INST_SIZE", "SUPSRAM_TYPE", "CURSRAM_TYPE",
       "SPEED", "ERRCOR_TYPE", "SCACHE_TYPE", "ASSOC", "MAX_SIZE2", "INST_SIZE2" >>

\* SYSINFO_ID_SMBIOS_CACHE_<name>
CID(name) ==
    SID("CACHE_INFO_START")
        + ((CHOOSE i \in DOMAIN cache_attr : cache_attr[i] = name) - 1) * SYSINFO_CACHE_LVL_MAX

\* a const char *prop that is NULL
NOPROP == "(null)"

----------------------------------------------------------------------------
(* The environment: sysinfo device, devicetree, U-Boot environment *)

\* ofnode_null()
ofnode_null == <<>>
\* ofnode_valid(): a node is the path of names leading to it
ofnode_valid(node) == node # ofnode_null

Sections == {"bios", "system", "baseboard", "chassis", "cache", "processor"}
CacheNodes == {"l1-cache", "l2-cache", "l3-cache"}

\* the nodes below the sysinfo device's node that the devicetree holds
DtNodes(dt) ==
    CASE dt = "none"   -> {}
      [] dt = "sparse" -> {<<"smbios">>} \cup {<<"smbios", s>> : s \in Sections \ {"system"}}
                            \cup {<<"smbios", "cache", "l1-cache">>}
      [] OTHER         -> {<<"smbios">>} \cup {<<"smbios", s>> : s \in Sections}
                            \cup {<<"smbios", "cache", n>> : n \in CacheNodes}

\* ofnode_find_subnode(), dev_read_subnode()
ofnode_find_subnode(dt, parent, name) ==
    IF ofnode_valid(parent) /\ Append(parent, name) \in DtNodes(dt)
    THEN Append(parent, name) ELSE ofnode_null

StrProps ==
    << "manufacturer", "product", "version", "serial", "sku", "family", "asset-tag",
       "chassis-location", "socket-design", "part-number" >>

IntProps ==
    << "wakeup-type", "feature-flags", "board-type", "chassis-type", "bootup-state",
       "power-supply-state", "thermal-state", "security-status", "oem-defined",
       "height", "number-of-power-cords", "processor-type", "family", "family2",
       "voltage", "external-clock", "max-speed", "current-speed", "processor-status",
       "upgrade", "core-count", "core-enabled", "thread-count", "characteristics",
       "core-count2", "core-enabled2", "thread-count2", "thread-enabled",
       "config", "max-size", "installed-size", "supported-sram-type",
       "current-sram-type", "speed", "error-correction-type", "system-cache-type",
       "associativity", "max-size2", "installed-size2" >>

IndexOf(seq, x) == CHOOSE i \in DOMAIN seq : seq[i] = x

\* ofnode_read_string(node, prop): NULLSTR when the property is missing.
\* Devicetree strings start with 'd'; the sparse tree holds "manufacturer" and
\* "version" only and an empty "product"; the long tree holds a bios version
\* of SMBIOS_STR_MAX characters, the longer tree one of two more.
ofnode_read_string(dt, node, prop) ==
    IF node \notin DtNodes(dt) \/ prop \notin {StrProps[i] : i \in DOMAIN StrProps}
    THEN NULLSTR
    ELSE CASE dt = "sparse" /\ prop = "product" -> <<>>
           [] dt = "sparse" /\ prop \notin {"manufacturer", "version"} -> NULLSTR
           [] dt = "long" /\ node = <<"smbios", "bios">> /\ prop = "version"
                -> Rep(100, SMBIOS_STR_MAX)
           [] dt = "longer" /\ node = <<"smbios", "bios">> /\ prop = "version"
                -> Rep(100, SMBIOS_STR_MAX + 2)
           [] OTHER -> <<100, 96 + IndexOf(StrProps, prop)>>

\* ofnode_read_u32(node, prop): ok is FALSE when the property is missing.
\* Devicetree integers are 1..39; the sparse tree holds none but "board-type".
ofnode_read_u32(dt, node, prop) ==
    IF node \notin DtNodes(dt) \/ prop \notin {IntProps[i] : i \in DOMAIN IntProps}
          \/ (dt = "sparse" /\ prop # "board-type")
    THEN [ok |-> FALSE, val |-> 0]
    ELSE [ok |-> TRUE, val |-> IndexOf(IntProps, prop)]

\* ofnode_read_string(ofnode_root(), prop): "model" is "rm,rn,ro" and
\* "compatible" is "rv,rc" when the root holds them
ofnode_root_string(root, prop) ==
    IF root = "none" THEN NULLSTR
    ELSE CASE prop = "model"      -> <<114, 109, Comma, 114, 110, Comma, 114, 111>>
           [] prop = "compatible" -> <<114, 118, Comma, 114, 99>>
           [] OTHER               -> NULLSTR

\* whether the accessors of the sysinfo device answer: they return -EPERM
\* before a successful sysinfo_detect(), and fail without a device
SysinfoReady(world) == world.dev = "ready"

\* which ids the driver knows: none, all, or the odd ones
SysinfoKnows(world, id) ==
    CASE world.probe = "fail" -> FALSE
      [] world.probe = "odd"  -> id % 2 = 1
      [] OTHER                -> TRUE

\* sysinfo_get_int(): the level count is the environment's, every other
\* integer the driver knows is 100 + id
sysinfo_get_int(world, id) ==
    IF ~SysinfoReady(world) \/ ~SysinfoKnows(world, id)
    THEN [ok |-> FALSE, val |-> 0]
    ELSE IF id = SID("CACHE_LEVEL") THEN [ok |-> TRUE, val |-> world.level]
    ELSE [ok |-> TRUE, val |-> 100 + id]

\* sysinfo_get_str(): sysinfo strings are 'p' and a letter chosen by the id,
\* or empty
sysinfo_get_str(world, id) ==
    IF ~SysinfoReady(world) \/ ~SysinfoKnows(world, id)
    THEN [ok |-> FALSE, val |-> <<>>]
    ELSE IF world.probe = "empty" THEN [ok |-> TRUE, val |-> <<>>]
    ELSE [ok |-> TRUE, val |-> <<112, 97 + (id % 4)>>]

\* sysinfo_get_data() of SYSINFO_ID_SMBIOS_CACHE_HANDLE: the driver's array
\* and its size in bytes; no other data area is provided
sysinfo_get_data(world, id) ==
    IF ~SysinfoReady(world) \/ id # SID("CACHE_HANDLE") \/ world.blob = "absent"
    THEN [ok |-> FALSE, size |-> 0]
    ELSE [ok |-> TRUE,
          size |-> IF world.blob = "ok" THEN SYSINFO_CACHE_LVL_MAX * SizeofU16
                   ELSE (SYSINFO_CACHE_LVL_MAX - 1) * SizeofU16]

----------------------------------------------------------------------------
(* Property Resolver *)

\* sysinfo_to_dt[]
sysinfo_to_dt ==
    << [si_node |-> "system",    si_str |-> "product",      dt_str |-> "model",      max |-> 2],
       [si_node |-> "system",    si_str |-> "manufacturer", dt_str |-> "compatible", max |-> 1],
       [si_node |-> "baseboard", si_str |-> "product",      dt_str |-> "model",      max |-> 2],
       [si_node |-> "baseboard", si_str |-> "manufacturer", dt_str |-> "compatible", max |-> 1] >>

\* a struct map_sysinfo * that is NULL
NOMAP == [si_node |-> NOPROP, si_str |-> NOPROP, dt_str |-> NOPROP, max |-> 0]

\* convert_sysinfo_to_dt(): the first entry for (node, si), or NULL
convert_sysinfo_to_dt(node, si) ==
    LET hits == {i \in DOMAIN sysinfo_to_dt :
                    /\ node # NOPROP
                    /\ node = sysinfo_to_dt[i].si_node
                    /\ si = sysinfo_to_dt[i].si_str}
    IN  IF hits = {} THEN NOMAP
        ELSE sysinfo_to_dt[CHOOSE i \in hits : \A j \in hits : i <= j]

\* the tokens strtok(str, ",") yields one after the other: the maximal runs
\* of non-delimiters
RECURSIVE Tokens(_)
Tokens(s) ==
    IF s = <<>> THEN <<>>
    ELSE IF Head(s) = Comma THEN Tokens(Tail(s))
    ELSE LET ends == {i \in 1..Len(s) : s[i] = Comma}
             n    == IF ends = {} THEN Len(s)
                     ELSE (CHOOSE i \in ends : \A j \in ends : i <= j) - 1
         IN  <<SubSeq(s, 1, n)>> \o Tokens(SubSeq(s, n + 2, Len(s)))

\* get_str_from_dt(): what str holds on return.  Each turn of the loop copies
\* the current token to the front of str, so after min(max, n) turns str is
\* token number min(max, n), counted from 1; with no token at all str keeps
\* the copied property.
get_str_from_dt(root, nprop) ==
    IF nprop = NOMAP \/ nprop.max = 0 THEN <<>>
    ELSE LET dt_str == ofnode_root_string(root, nprop.dt_str)
         IN  IF dt_str = NULLSTR THEN <<>>
             ELSE LET toks == Tokens(dt_str)
                      turns == IF nprop.max < Len(toks) THEN nprop.max ELSE Len(toks)
                  IN  IF turns = 0 THEN dt_str ELSE toks[turns]

\* smbios_get_val_si()
smbios_get_val_si(world, c, prop, id) ==
    IF id = 0 \/ ~c.dev THEN 0
    ELSE Let(sysinfo_get_int(world, id), LAMBDA si :
             IF si.ok THEN si.val
             ELSE IF ~CONFIG_OF_CONTROL \/ prop = NOPROP \/ ~ofnode_valid(c.node) THEN 0
             ELSE Let(ofnode_read_u32(world.dt, c.node, prop), LAMBDA dt :
                      IF dt.ok THEN dt.val ELSE 0))

\* a resolver that asks the devicetree before the sysinfo device
smbios_add_prop_si_dt_first(world, c0, prop, id, dval) ==
    Let(<<c0, IF dval = NULLSTR \/ dval = <<>> THEN NULLSTR ELSE dval,
          sysinfo_get_str(world, id),
          IF prop = NOPROP THEN NULLSTR
          ELSE IF ofnode_valid(c0.node) THEN ofnode_read_string(world.dt, c0.node, prop)
          ELSE get_str_from_dt(world.root, convert_sysinfo_to_dt(c0.subnode_name, prop))>>,
        LAMBDA x :
            IF x[4] # NULLSTR /\ x[4] # <<>> THEN smbios_add_string(x[1], x[4])
            ELSE IF id # 0 /\ x[1].dev /\ x[3].ok THEN smbios_add_string(x[1], x[3].val)
            ELSE smbios_add_string(x[1], x[2]))
\* a resolver that gives up, with no string, when the sysinfo read fails
smbios_add_prop_si_no_fallback(world, c0, prop, id, dval) ==
    Let(<<c0, IF dval = NULLSTR \/ dval = <<>> THEN NULLSTR ELSE dval,
          sysinfo_get_str(world, id)>>, LAMBDA x :
        LET c  == x[1]
            dv == x[2]
            si == x[3]
        IN  IF id # 0 /\ c.dev
            THEN IF si.ok THEN smbios_add_string(c, si.val) ELSE [c |-> c, ret |-> 0]
            ELSE IF prop = NOPROP THEN smbios_add_string(c, dv)
            ELSE IF CONFIG_OF_CONTROL
            THEN Let(IF ofnode_valid(c.node)
                     THEN ofnode_read_string(world.dt, c.node, prop)
                     ELSE get_str_from_dt(world.root,
                                          convert_sysinfo_to_dt(c.subnode_name, prop)),
                     LAMBDA str :
                        smbios_add_string(c, IF str # NULLSTR /\ str # <<>> THEN str ELSE dv))
            ELSE [c |-> c, ret |-> 0])

\* smbios_add_prop_si(): [c, ret]
smbios_add_prop_si(world, c0, prop, id, dval) ==
    Let(<<c0, IF dval = NULLSTR \/ dval = <<>> THEN NULLSTR ELSE dval,
          sysinfo_get_str(world, id)>>, LAMBDA x :
        LET c  == x[1]
            dv == x[2]
            si == x[3]
        IN  IF id # 0 /\ c.dev /\ si.ok THEN smbios_add_string(c, si.val)
            ELSE IF prop = NOPROP THEN smbios_add_string(c, dv)
            ELSE IF CONFIG_OF_CONTROL
            THEN Let(IF ofnode_valid(c.node)
                     THEN ofnode_read_string(world.dt, c.node, prop)
                     ELSE get_str_from_dt(world.root,
                                          convert_sysinfo_to_dt(c.subnode_name, prop)),
                     LAMBDA str :
                        smbios_add_string(c, IF str # NULLSTR /\ str # <<>> THEN str ELSE dv))
            ELSE [c |-> c, ret |-> 0])

\* smbios_add_prop()
smbios_add_prop(world, c, prop, dval) ==
    smbios_add_prop_si(world, c, prop, SID("NONE"), dval)

----------------------------------------------------------------------------
(* Structure Writers *)

\* sizeof(struct smbios_type<n>), the two bytes of eos[] included
SizeOf(type) ==
    CASE type = 0   -> 26
      [] type = 1   -> 29
      [] type = 2   -> 17
      [] type = 3   -> 24
      [] type = 4   -> 50
      [] type = 7   -> 29
      [] type = 32  -> 13
      [] type = 127 -> 6

\* SMBIOS_STRUCT_EOS_BYTES
SMBIOS_STRUCT_EOS_BYTES == 2
\* SMBIOS_PROCESSOR_FAMILY_UNKNOWN, SMBIOS_PROCESSOR_FAMILY_EXT
SMBIOS_PROCESSOR_FAMILY_UNKNOWN == 2
SMBIOS_PROCESSOR_FAMILY_EXT == 254
\* SMBIOS_CACHE_HANDLE_NONE
SMBIOS_CACHE_HANDLE_NONE == 65535
\* sizeof(t->uuid)
SizeofUuid == 16

\* "U-Boot"
UBootVendor == <<85, 45, 66, 111, 111, 116>>
\* PLAIN_VERSION of a 2024.01 build
PLAIN_VERSION == <<50, 48, 50, 52, 46, 48, 49>>
\* U_BOOT_DMI_DATE of a 2024.01 build: "01/01/2024"
U_BOOT_DMI_DATE == <<48, 49, 47, 48, 49, 47, 50, 48, 50, 52>>

\* map_sysmem(), memset(t, 0, len), fill_smbios_header() and the
\* smbios_set_eos() every writer but the end marker's starts with: the
\* string area starts at the eos[] bytes that end the structure
OpenStruct(c, cur, type, hdl, fields) ==
    LET t0 == [f \in fields \cup {"type", "length", "handle"} |-> 0]
        t1 == [t0 EXCEPT !["type"] = type,
                         !["length"] = SizeOf(type) - SMBIOS_STRUCT_EOS_BYTES,
                         !["handle"] = hdl]
    IN  [c EXCEPT !.mem = MemZero(c.mem, cur, SizeOf(type)), !.t = t1]

\* eos_addr = (u8 *)t + len - sizeof(t->eos), which is t->eos
EosAddr(cur, type) == cur + SizeOf(type) - SMBIOS_STRUCT_EOS_BYTES

\* len = t->hdr.length + smbios_string_table_len(ctx)
StructLen(c) == c.t["length"] + smbios_string_table_len(c)

\* a field assignment t->f = v
Fld(c, f, v) == [c EXCEPT !.t[f] = v]

\* t->f = smbios_add_prop_si(ctx, prop, id, dval)
S(f, prop, id, dval) == [k |-> "str", f |-> f, prop |-> prop, id |-> id, dval |-> dval]
\* t->f = smbios_get_val_si(ctx, prop, id)
I(f, prop, id) == [k |-> "int", f |-> f, prop |-> prop, id |-> id, dval |-> NULLSTR]

\* a run of such assignments, in program order
RECURSIVE RunOpsFrom(_, _, _, _)
RunOpsFrom(world, c0, ops, i0) ==
    Let(<<c0, i0>>, LAMBDA x :
        LET c == x[1]
            i == x[2]
            o == ops[i]
        IN  IF i > Len(ops) THEN c
            ELSE IF o.k = "str"
            THEN Let(smbios_add_prop_si(world, c, o.prop, o.id, o.dval), LAMBDA r :
                     RunOpsFrom(world, Fld(r.c, o.f, r.ret), ops, i + 1))
            ELSE RunOpsFrom(world,
                            Fld(c, o.f, smbios_get_val_si(world, c, o.prop, o.id)),
                            ops, i + 1))

RunOps(world, c, ops0) == Let(ops0, LAMBDA ops : RunOpsFrom(world, c, ops, 1))

OpFields(ops) == {ops[i].f : i \in DOMAIN ops}

\* what a writer hands back: the context and memory, the length it returns,
\* the advanced cursor, the structures it emitted, gd->smbios_version and the
\* driver's cache-handle array
Result(c, n, cur, recs, ver, hdl) ==
    [c |-> c, len |-> n, cur |-> cur, recs |-> recs, ver |-> ver, hdl |-> hdl]

Emitted(c, cur, n) == [at |-> cur, len |-> n, t |-> c.t]

\* an end of a writer that moves the cursor past the fixed part only
CloseStructNoStrings(c0, cur, ver, chdl) ==
    Let(<<c0, StructLen(c0)>>, LAMBDA x :
        Result(x[1], x[2], cur + x[1].t["length"], <<Emitted(x[1], cur, x[2])>>, ver, chdl))
\* len = t->hdr.length + smbios_string_table_len(ctx); *current += len;
\* return len
CloseStruct(c0, cur, ver, chdl) ==
    Let(<<c0, StructLen(c0)>>, LAMBDA x :
        Result(x[1], x[2], cur + x[2], <<Emitted(x[1], cur, x[2])>>, ver, chdl))

Type0Head == << S("vendor", NOPROP, SID("BIOS_VENDOR"), UBootVendor),
                S("bios_ver", "version", SID("BIOS_VER"), PLAIN_VERSION) >>
Type0Tail == << S("bios_release_date", NOPROP, SID("BIOS_REL_DATE"), U_BOOT_DMI_DATE) >>

\* smbios_write_type0(), without CONFIG_ROM_SIZE, CONFIG_GENERATE_ACPI_TABLE
\* and CONFIG_EFI_LOADER
smbios_write_type0(world, cur, hdl, c, ver, chdl) ==
    Let(RunOps(world,
               smbios_set_eos(
                   OpenStruct(c, cur, 0, hdl,
                              OpFields(Type0Head) \cup OpFields(Type0Tail) \cup
                              {"bios_characteristics", "bios_characteristics_ext2",
                               "bios_major_release", "bios_minor_release",
                               "ec_major_release", "ec_minor_release"}),
                   EosAddr(cur, 0)),
               Type0Head),
        LAMBDA c3 :
            CloseStruct(
                [RunOps(world, c3, Type0Tail) EXCEPT
                   !.t["bios_characteristics"] =
                       {"PCI_SUPPORTED", "SELECTABLE_BOOT", "UPGRADEABLE"},
                   !.t["bios_characteristics_ext2"] = {"TARGET"},
                   !.t["bios_major_release"] = 24,
                   !.t["bios_minor_release"] = 1,
                   !.t["ec_major_release"] = 255,
                   !.t["ec_minor_release"] = 255],
                cur,
                \* if (t->bios_ver) gd->smbios_version = ctx->last_str
                IF c3.t["bios_ver"] # 0 THEN c3.last_str ELSE ver,
                chdl))

Type1Head == << S("manufacturer", "manufacturer", SID("SYSTEM_MANUFACTURER"), NULLSTR),
                S("product_name", "product", SID("SYSTEM_PRODUCT"), NULLSTR),
                S("version", "version", SID("SYSTEM_VERSION"), NULLSTR) >>
Type1Serial == << S("serial_number", "serial", SID("SYSTEM_SERIAL"), NULLSTR) >>
Type1Tail == << I("wakeup_type", "wakeup-type", SID("SYSTEM_WAKEUP")),
                S("sku_number", "sku", SID("SYSTEM_SKU"), NULLSTR),
                S("family", "family", SID("SYSTEM_FAMILY"), NULLSTR) >>

\* a copy of size characters that leaves no room for the terminator
strlcpy_unterminated(src, size) == IF Len(src) >= size THEN SubSeq(src, 1, size) ELSE src
\* strlcpy(dst, src, size): what dst holds
strlcpy(src, size) == IF Len(src) >= size THEN SubSeq(src, 1, size - 1) ELSE src

\* smbios_write_type1()
smbios_write_type1(world, cur, hdl, c, ver, chdl) ==
    Let(RunOps(world,
               smbios_set_eos(
                   OpenStruct(c, cur, 1, hdl,
                              OpFields(Type1Head) \cup OpFields(Type1Serial) \cup
                              OpFields(Type1Tail) \cup {"uuid"}),
                   EosAddr(cur, 1)),
               Type1Head),
        LAMBDA c3 :
            CloseStruct(
                RunOps(world,
                       IF world.serial # NULLSTR
                       THEN Let(smbios_add_prop(world, c3, NOPROP, world.serial),
                                LAMBDA r :
                                    Fld(Fld(r.c, "serial_number", r.ret),
                                        "uuid", strlcpy(world.serial, SizeofUuid)))
                       ELSE RunOps(world, c3, Type1Serial),
                       Type1Tail),
                cur, ver, chdl))

Type2Ops == << S("manufacturer", "manufacturer", SID("BASEBOARD_MANUFACTURER"), NULLSTR),
               S("product_name", "product", SID("BASEBOARD_PRODUCT"), NULLSTR),
               S("version", "version", SID("BASEBOARD_VERSION"), NULLSTR),
               S("serial_number", "serial", SID("BASEBOARD_SERIAL"), NULLSTR),
               S("asset_tag_number", "asset-tag", SID("BASEBOARD_ASSET_TAG"), NULLSTR),
               I("feature_flags", "feature-flags", SID("BASEBOARD_FEATURE")),
               S("chassis_location", "chassis-location", SID("BASEBOARD_CHASSIS_LOCAT"), NULLSTR),
               I("board_type", "board-type", SID("BASEBOARD_TYPE")) >>

\* a board writer that stores the board's own handle, and
\* t->chassis_handle = handle + 1
BoardChassisHandleSelf(hdl) == hdl
BoardChassisHandle(hdl) == hdl + 1

\* smbios_write_type2()
smbios_write_type2(world, cur, hdl, c, ver, chdl) ==
    CloseStruct(
        Fld(RunOps(world,
                   smbios_set_eos(
                       OpenStruct(c, cur, 2, hdl, OpFields(Type2Ops) \cup {"chassis_handle"}),
                       EosAddr(cur, 2)),
                   Type2Ops),
            "chassis_handle", BoardChassisHandle(hdl)),
        cur, ver, chdl)

Type3Ops == << S("manufacturer", "manufacturer", SID("ENCLOSURE_MANUFACTURER"), NULLSTR),
               I("chassis_type", "chassis-type", SID("ENCLOSURE_TYPE")),
               S("version", "version", SID("ENCLOSURE_VERSION"), NULLSTR),
               S("serial_number", "serial", SID("ENCLOSURE_SERIAL"), NULLSTR),
               S("asset_tag_number", "asset-tag", SID("BASEBOARD_ASSET_TAG"), NULLSTR),
               I("bootup_state", "bootup-state", SID("ENCLOSURE_BOOTUP")),
               I("power_supply_state", "power-supply-state", SID("ENCLOSURE_POW")),
               I("thermal_state", "thermal-state", SID("ENCLOSURE_THERMAL")),
               I("security_status", "security-status", SID("ENCLOSURE_SECURITY")),
               I("oem_defined", "oem-defined", SID("ENCLOSURE_OEM")),
               I("height", "height", SID("ENCLOSURE_HEIGHT")),
               I("number_of_power_cords", "number-of-power-cords", SID("ENCLOSURE_POWCORE_NUM")),
               S("sku_number", "sku", SID("ENCLOSURE_SKU"), NULLSTR) >>

\* smbios_write_type3(): elem_size is 0, so *sku_num_addr is t->sku_number
smbios_write_type3(world, cur, hdl, c, ver, chdl) ==
    CloseStruct(
        RunOps(world,
               smbios_set_eos(OpenStruct(c, cur, 3, hdl, OpFields(Type3Ops)),
                              EosAddr(cur, 3)),
               Type3Ops),
        cur, ver, chdl)

Type7Ops(level) ==
    << S("socket_design", "socket-design", CID("SOCKET") + level, NULLSTR),
       I("config", "config", CID("CONFIG") + level),
       I("max_size", "max-size", CID("MAX_SIZE") + level),
       I("inst_size", "installed-size", CID("INST_SIZE") + level),
       I("supp_sram_type", "supported-sram-type", CID("SUPSRAM_TYPE") + level),
       I("curr_sram_type", "current-sram-type", CID("CURSRAM_TYPE") + level),
       I("speed", "speed", CID("SPEED") + level),
       I("err_corr_type", "error-correction-type", CID("ERRCOR_TYPE") + level),
       I("sys_cache_type", "system-cache-type", CID("SCACHE_TYPE") + level),
       I("associativity", "associativity", CID("ASSOC") + level),
       I("max_size2", "max-size2", CID("MAX_SIZE2") + level),
       I("inst_size2", "installed-size2", CID("INST_SIZE2") + level) >>

\* the array after a store of v at slot (zero-based): a store past the last
\* slot is kept as an entry outside 1..SYSINFO_CACHE_LVL_MAX
StoreSlot(chdl, slot, v) ==
    [k \in DOMAIN chdl \cup {slot + 1} |-> IF k = slot + 1 THEN v ELSE chdl[k]]

\* a store of the handle that does not look at the size of the array
SaveCacheHandleAnySize(world, chdl, level, hdl) ==
    LET d == sysinfo_get_data(world, SID("CACHE_HANDLE"))
    IN  IF d.ok THEN StoreSlot(chdl, level, hdl) ELSE chdl
\* *((u16 *)hdl + level) = handle, when the driver's array has the expected size
SaveCacheHandle(world, chdl, level, hdl) ==
    LET d == sysinfo_get_data(world, SID("CACHE_HANDLE"))
    IN  IF d.ok /\ d.size = SYSINFO_CACHE_LVL_MAX * SizeofU16
        THEN StoreSlot(chdl, level, hdl)
        ELSE chdl

\* smbios_write_type7_1level()
smbios_write_type7_1level(world, cur, hdl, c, level, ver, chdl) ==
    Let(Type7Ops(level), LAMBDA ops :
        CloseStruct(
            RunOps(world,
                   smbios_set_eos(OpenStruct(c, cur, 7, hdl, OpFields(ops)),
                                  EosAddr(cur, 7)),
                   ops),
            cur, ver, SaveCacheHandle(world, chdl, level, hdl)))

\* snprintf(buf, sizeof(buf), "l%d-cache", i + 1)
CacheNodeName(i) ==
    CASE i = 0 -> "l1-cache" [] i = 1 -> "l2-cache" [] i = 2 -> "l3-cache"
      [] i = 3 -> "l4-cache" [] OTHER -> "l5-cache"

\* a test that rejects no level count, and the test that makes
\* smbios_write_type7() return 0
CacheLevelRejectedNever(level) == FALSE
CacheLevelRejected(level) == level >= SYSINFO_CACHE_LVL_MAX

\* The loop of smbios_write_type7() from level i on: each turn names the
\* subnode, writes one structure with handle++ and restores the context
\* from ctx_bak (the memory written stays)
RECURSIVE Type7Loop(_, _, _, _, _, _, _)
Type7Loop(world, r0, hdl0, bak, i0, level, ver) ==
    Let(<<r0, hdl0, i0>>, LAMBDA x :
        LET r   == x[1]
            hdl == x[2]
            i   == x[3]
        IN  IF i > level THEN r
            ELSE Let(smbios_write_type7_1level(
                         world, r.cur, hdl,
                         [r.c EXCEPT !.subnode_name = CacheNodeName(i),
                                     !.node = ofnode_find_subnode(world.dt, bak.node,
                                                                  CacheNodeName(i))],
                         i, ver, r.hdl),
                     LAMBDA one :
                         Type7Loop(world,
                                   Result([bak EXCEPT !.mem = one.c.mem, !.t = one.c.t],
                                          r.len + one.len, one.cur, r.recs \o one.recs,
                                          ver, one.hdl),
                                   hdl + 1, bak, i + 1, level, ver)))

\* smbios_write_type7(): parent is the node of the context on entry, which
\* is what ctx_bak holds
smbios_write_type7(world, cur, hdl, c0, ver, chdl) ==
    Let(<<c0, smbios_get_val_si(world, c0, NOPROP, SID("CACHE_LEVEL"))>>, LAMBDA x :
        IF CacheLevelRejected(x[2]) THEN Result(x[1], 0, cur, <<>>, ver, chdl)
        ELSE Type7Loop(world, Result(x[1], 0, cur, <<>>, ver, chdl), hdl, x[1],
                       0, x[2], ver))

\* the CPU device of UCLASS_CPU (CONFIG_CPU): its platform data and what
\* cpu_get_vendor() and cpu_get_desc() give, NULLSTR when they fail
CpuOf(world) ==
    CASE world.cpu = "full" -> [present |-> TRUE, family |-> 19, id0 |-> 1, id1 |-> 2,
                                vendor |-> <<99, 118>>, desc |-> <<99, 100>>]
      [] world.cpu = "bare" -> [present |-> TRUE, family |-> 0, id0 |-> 0, id1 |-> 0,
                                vendor |-> NULLSTR, desc |-> NULLSTR]
      [] OTHER              -> [present |-> FALSE, family |-> 0, id0 |-> 0, id1 |-> 0,
                                vendor |-> NULLSTR, desc |-> NULLSTR]

\* smbios_write_type4_dm(); no driver provides SYSINFO_ID_SMBIOS_PROCESSOR_ID
\* here, so processor_id stays as the CPU device set it
smbios_write_type4_dm(world, c0) ==
    Let(<<c0, CpuOf(world)>>, LAMBDA x :
        LET c   == x[1]
            cpu == x[2]
        IN  Let(<<IF cpu.present
                  THEN Fld(Fld(c, "processor_id0", cpu.id0), "processor_id1", cpu.id1)
                  ELSE c,
                  IF cpu.present /\ cpu.family # 0
                     /\ cpu.family # SMBIOS_PROCESSOR_FAMILY_UNKNOWN
                  THEN cpu.family
                  ELSE smbios_get_val_si(world, c, "family", SID("PROCESSOR_FAMILY")) % 65536>>,
                LAMBDA y :
                    LET c1  == y[1]
                        fam == y[2]
                    IN  RunOps(world,
                               Fld(IF fam = SMBIOS_PROCESSOR_FAMILY_EXT
                                   THEN Fld(c1, "processor_family2",
                                            smbios_get_val_si(world, c1, "family2",
                                                              SID("PROCESSOR_FAMILY2")))
                                   ELSE c1,
                                   "processor_family", fam % 256),
                               << S("processor_manufacturer", "manufacturer",
                                    SID("PROCESSOR_MANUFACT"), cpu.vendor),
                                  S("processor_version", "version",
                                    SID("PROCESSOR_VERSION"), cpu.desc) >>)))

Type4Head == << S("socket_design", "socket-design", SID("PROCESSOR_SOCKET"), NULLSTR),
                I("processor_type", "processor-type", SID("PROCESSOR_TYPE")) >>
Type4Mid == << I("voltage", "voltage", SID("PROCESSOR_VOLTAGE")),
               I("external_clock", "external-clock", SID("PROCESSOR_EXT_CLOCK")),
               I("max_speed", "max-speed", SID("PROCESSOR_MAX_SPEED")),
               I("current_speed", "current-speed", SID("PROCESSOR_CUR_SPEED")),
               I("status", "processor-status", SID("PROCESSOR_STATUS")),
               I("processor_upgrade", "upgrade", SID("PROCESSOR_UPGRADE")) >>
Type4Tail == << S("serial_number", "serial", SID("PROCESSOR_SN"), NULLSTR),
                S("asset_tag", "asset-tag", SID("PROCESSOR_ASSET_TAG"), NULLSTR),
                S("part_number", "part-number", SID("PROCESSOR_PN"), NULLSTR),
                I("core_count", "core-count", SID("PROCESSOR_CORE_CNT")),
                I("core_enabled", "core-enabled", SID("PROCESSOR_CORE_EN")),
                I("thread_count", "thread-count", SID("PROCESSOR_THREAD_CNT")),
                I("processor_characteristics", "characteristics", SID("PROCESSOR_CHARA")),
                I("core_count2", "core-count2", SID("PROCESSOR_CORE_CNT2")),
                I("core_enabled2", "core-enabled2", SID("PROCESSOR_CORE_EN2")),
                I("thread_count2", "thread-count2", SID("PROCESSOR_THREAD_CNT2")),
                I("thread_enabled", "thread-enabled", SID("PROCESSOR_THREAD_EN")) >>

\* a read of the driver's array that takes a zero slot for a handle
ProcCacheHandleNoZeroTest(world, chdl, k) ==
    LET d == sysinfo_get_data(world, SID("CACHE_HANDLE"))
    IN  IF d.ok /\ d.size = SYSINFO_CACHE_LVL_MAX * SizeofU16
        THEN chdl[k] ELSE SMBIOS_CACHE_HANDLE_NONE
\* the cache handle the processor structure gets for slot k (1..3) of the
\* driver's array: the sentinel unless the array is there, has the expected
\* size and the slot is not zero
ProcCacheHandle(world, chdl, k) ==
    LET d == sysinfo_get_data(world, SID("CACHE_HANDLE"))
    IN  IF d.ok /\ d.size = SYSINFO_CACHE_LVL_MAX * SizeofU16 /\ chdl[k] # 0
        THEN chdl[k] ELSE SMBIOS_CACHE_HANDLE_NONE

\* smbios_write_type4()
smbios_write_type4(world, cur, hdl, c, ver, chdl) ==
    CloseStruct(
        RunOps(world,
               [RunOps(world,
                       smbios_write_type4_dm(
                           world,
                           RunOps(world,
                                  smbios_set_eos(
                                      OpenStruct(c, cur, 4, hdl,
                                          OpFields(Type4Head) \cup OpFields(Type4Mid) \cup
                                          OpFields(Type4Tail) \cup
                                          {"processor_id0", "processor_id1",
                                           "processor_family", "processor_family2",
                                           "processor_manufacturer", "processor_version",
                                           "l1_cache_handle", "l2_cache_handle",
                                           "l3_cache_handle"}),
                                      EosAddr(cur, 4)),
                                  Type4Head)),
                       Type4Mid)
                  EXCEPT !.t["l1_cache_handle"] = ProcCacheHandle(world, chdl, 1),
                         !.t["l2_cache_handle"] = ProcCacheHandle(world, chdl, 2),
                         !.t["l3_cache_handle"] = ProcCacheHandle(world, chdl, 3)],
               Type4Tail),
        cur, ver, chdl)

\* smbios_write_type32(): the string area stays the two zero bytes of eos[]
smbios_write_type32(world, cur, hdl, c, ver, chdl) ==
    Let(smbios_set_eos(OpenStruct(c, cur, 32, hdl, {}), EosAddr(cur, 32)), LAMBDA c2 :
        Result(c2, SizeOf(32), cur + SizeOf(32), <<Emitted(c2, cur, SizeOf(32))>>,
               ver, chdl))

\* smbios_write_type127(): the context is not touched
smbios_write_type127(world, cur, hdl, c, ver, chdl) ==
    Let(OpenStruct(c, cur, 127, hdl, {}), LAMBDA c1 :
        Result(c1, SizeOf(127), cur + SizeOf(127), <<Emitted(c1, cur, SizeOf(127))>>,
               ver, chdl))

----------------------------------------------------------------------------
(* Entry-point descriptor and Version Patch API *)

\* sizeof(struct smbios3_entry)
SizeofEntry == 24
\* SMBIOS_MAJOR_VER, SMBIOS_MINOR_VER
SMBIOS_MAJOR_VER == 3
SMBIOS_MINOR_VER == 7
\* offsets of checksum, length, table_maximum_size and struct_table_address
\* in struct smbios3_entry
OffChecksum == 5
OffLength == 6
OffTableMaxSize == 12
OffTableAddress == 16

\* ALIGN(x, a)
ALIGN(x, a) == ((x + a - 1) \div a) * a

\* the n bytes of v, least significant first
RECURSIVE LE(_, _)
LE(v, n) == IF n = 0 THEN <<>> ELSE <<v % 256>> \o LE(v \div 256, n - 1)

RECURSIVE ByteSum(_, _, _)
ByteSum(m, p, n) == IF n = 0 THEN 0 ELSE m[p] + ByteSum(m, p + 1, n - 1)

\* table_compute_checksum(): the byte that makes the n bytes at p sum to 0
table_compute_checksum(m, p, n) == (256 - (ByteSum(m, p, n) % 256)) % 256

\* "_SM3_"
Anchor == <<95, 83, 77, 51, 95>>

\* the descriptor of write_smbios_table() up to the two fields known last
EntryFixed(m, start) ==
    MemWrite(MemWrite(MemZero(m, start, SizeofEntry), start, Anchor),
             start + OffLength,
             <<SizeofEntry, SMBIOS_MAJOR_VER, SMBIOS_MINOR_VER, 0, 1>>)

\* a header written with the checksum taken before table_maximum_size is stored
WriteEntryChecksumEarly(m, start, total, table_addr) ==
    Let(MemWrite(EntryFixed(m, start), start + OffTableAddress, LE(table_addr, 8)),
        LAMBDA m1 :
            MemWrite(MemWrite(m1, start + OffChecksum,
                              <<table_compute_checksum(m1, start, SizeofEntry)>>),
                     start + OffTableMaxSize, LE(total, 4)))

\* write_smbios_table(): "now go back and write the SMBIOS3 header"
WriteEntry(m, start, total, table_addr) ==
    Let(MemWrite(MemWrite(EntryFixed(m, start), start + OffTableMaxSize, LE(total, 4)),
                 start + OffTableAddress, LE(table_addr, 8)),
        LAMBDA m2 :
            MemWrite(m2, start + OffChecksum,
                     <<table_compute_checksum(m2, start, SizeofEntry)>>))

Min(a, b) == IF a < b THEN a ELSE b

\* an update that compares strlen() of both strings
smbios_update_version_uncapped(m, ptr, version) ==
    IF ptr = NULLPTR THEN [mem |-> m, val |-> -ENOENT]
    ELSE IF Len(version) > strlen(m, ptr) THEN [mem |-> m, val |-> -ENOSPC]
    ELSE [mem |-> MemWrite(m, ptr, version), val |-> 0]
\* an update that copies the terminator of the new string as well
smbios_update_version_strcpy(m, ptr, version) ==
    IF ptr = NULLPTR THEN [mem |-> m, val |-> -ENOENT]
    ELSE Let(<<strnlen(m, ptr, SMBIOS_STR_MAX), Min(Len(version), SMBIOS_STR_MAX)>>,
             LAMBDA x :
                 IF x[2] > x[1] THEN [mem |-> m, val |-> -ENOSPC]
                 ELSE [mem |-> MemWrite(m, ptr, SubSeq(version, 1, x[2]) \o <<0>>),
                       val |-> 0])
\* smbios_update_version(): [mem, val]
smbios_update_version(m, ptr, version) ==
    IF ptr = NULLPTR THEN [mem |-> m, val |-> -ENOENT]
    ELSE Let(<<strnlen(m, ptr, SMBIOS_STR_MAX), Min(Len(version), SMBIOS_STR_MAX)>>,
             LAMBDA x :
                 \* x[1] is old_len, x[2] is len
                 IF x[2] > x[1] THEN [mem |-> m, val |-> -ENOSPC]
                 ELSE [mem |-> MemWrite(m, ptr, SubSeq(version, 1, x[2])), val |-> 0])

----------------------------------------------------------------------------
(* The runs *)

\* addresses the caller hands to write_smbios_table(), the second one not
\* aligned to 16
StartAddrs == {0, 1001}
\* what the caller's buffer holds before the call: zeroes at address 0, 0xaa
\* left over at the other
FillAt(start) == IF start = 0 THEN 0 ELSE 170

\* the strings handed to smbios_update_version(): 'n' repeated
VersionArgs == {Rep(110, k) : k \in {0, 2, 3, 8, SMBIOS_STR_MAX + 1}}

World(start, fill, dev, probe, level, blob, dt, root, serial, cpu) ==
    [start |-> start, fill |-> fill, dev |-> dev, probe |-> probe, level |-> level,
     blob |-> blob, dt |-> dt, root |-> root, serial |-> serial, cpu |-> cpu]

\* the level counts a driver reports
Levels == -1 .. (SYSINFO_CACHE_LVL_MAX + 1)

\* Environments of a build: no sysinfo device, one whose detection failed, or
\* a detected one that knows all ids (with every level count), the odd ids or
\* answers empty strings; each with no, a full or a sparse smbios subtree and
\* with or without the root properties.  The cache-handle array of the
\* driver is absent, of the right size or of a wrong one.  Some builds have
\* a "serial#" in the environment or a CPU device.  Two more have a bios
\* version of SMBIOS_STR_MAX characters, or of two more, in the devicetree.
Worlds ==
    {World(s, FillAt(s), "ready", "ok", l, "ok", d, r, NULLSTR, "none") :
        s \in StartAddrs, l \in Levels, d \in {"none", "full", "sparse"},
        r \in {"none", "present"}}
    \cup
    {World(s, FillAt(s), "ready", "ok", l, b, "full", "present", NULLSTR, "none") :
        s \in StartAddrs, l \in Levels, b \in {"absent", "missized"}}
    \cup
    {World(s, FillAt(s), "ready", p, 1, "ok", d, r, NULLSTR, "none") :
        s \in StartAddrs, p \in {"odd", "empty"}, d \in {"none", "full", "sparse"},
        r \in {"none", "present"}}
    \cup
    {World(s, FillAt(s), dv, "fail", 0, "absent", d, r, NULLSTR, "none") :
        s \in StartAddrs, dv \in {"none", "notready", "ready"},
        d \in {"none", "full", "sparse"}, r \in {"none", "present"}}
    \cup
    {World(s, FillAt(s), dv, p, 1, "ok", d, "none", sn, cpu) :
        s \in {0}, dv \in {"none", "ready"}, p \in {"ok"}, d \in {"none", "full"},
        sn \in {NULLSTR, <<115, 110>>, Rep(115, SizeofUuid + 1)}, cpu \in {"none", "bare", "full"}}
    \cup
    {World(s, 0, "ready", "fail", 0, "absent", "long", "none", NULLSTR, "none") :
        s \in StartAddrs}
    \cup
    {World(s, 0, "ready", "fail", 0, "absent", "longer", "none", NULLSTR, "none") :
        s \in {0}}

\* dev_read_subnode(ctx.dev, "smbios"), ofnode_null() without a device
parent_node(world) ==
    IF world.dev # "none" /\ <<"smbios">> \in DtNodes(world.dt)
    THEN <<"smbios">> ELSE ofnode_null

\* ALIGN(addr + sizeof(struct smbios3_entry), 16)
tables(world) == ALIGN(world.start + SizeofEntry, 16)

\* a method table with the processor writer ahead of the cache writer
smbios_write_funcs_processor_first ==
    << [write |-> 0,   subnode_name |-> "bios"],
       [write |-> 1,   subnode_name |-> "system"],
       [write |-> 2,   subnode_name |-> "baseboard"],
       [write |-> 3,   subnode_name |-> "chassis"],
       [write |-> 4,   subnode_name |-> "processor"],
       [write |-> 7,   subnode_name |-> "cache"],
       [write |-> 32,  subnode_name |-> NOPROP],
       [write |-> 127, subnode_name |-> NOPROP] >>
\* smbios_write_funcs[]
smbios_write_funcs ==
    << [write |-> 0,   subnode_name |-> "bios"],
       [write |-> 1,   subnode_name |-> "system"],
       [write |-> 2,   subnode_name |-> "baseboard"],
       [write |-> 3,   subnode_name |-> "chassis"],
       [write |-> 7,   subnode_name |-> "cache"],
       [write |-> 4,   subnode_name |-> "processor"],
       [write |-> 32,  subnode_name |-> NOPROP],
       [write |-> 127, subnode_name |-> NOPROP] >>

\* method->write(&addr, handle, &ctx)
CallWriter(type, world, cur, hdl, c, ver, chdl) ==
    CASE type = 0   -> smbios_write_type0(world, cur, hdl, c, ver, chdl)
      [] type = 1   -> smbios_write_type1(world, cur, hdl, c, ver, chdl)
      [] type = 2   -> smbios_write_type2(world, cur, hdl, c, ver, chdl)
      [] type = 3   -> smbios_write_type3(world, cur, hdl, c, ver, chdl)
      [] type = 7   -> smbios_write_type7(world, cur, hdl, c, ver, chdl)
      [] type = 4   -> smbios_write_type4(world, cur, hdl, c, ver, chdl)
      [] type = 32  -> smbios_write_type32(world, cur, hdl, c, ver, chdl)
      [] type = 127 -> smbios_write_type127(world, cur, hdl, c, ver, chdl)

\* the context together with the memory it points into and the structure
\* being written
WithMem(cx, m) ==
    [node |-> cx.node, dev |-> cx.dev, subnode_name |-> cx.subnode_name,
     eos |-> cx.eos, next_ptr |-> cx.next_ptr, last_str |-> cx.last_str,
     mem |-> m, t |-> <<>>]

CtxOf(c) ==
    [node |-> c.node, dev |-> c.dev, subnode_name |-> c.subnode_name,
     eos |-> c.eos, next_ptr |-> c.next_ptr, last_str |-> c.last_str]

NoRet == [op |-> "none", arg |-> <<>>, val |-> 0]

PcOf(i) == IF i < Len(smbios_write_funcs) THEN <<"w", i>> ELSE <<"entry", i>>

Init ==
    /\ w \in Worlds
    /\ pc = <<"idle", 0>>
    /\ mem = [a \in w.start .. (w.start + MemSize - 1) |-> w.fill]
    /\ ctx = [node |-> ofnode_null, dev |-> FALSE, subnode_name |-> NOPROP,
              eos |-> NULLPTR, next_ptr |-> NULLPTR, last_str |-> NULLPTR]
    /\ addr = 0
    /\ len = 0
    /\ handle = 0
    /\ out = <<>>
    /\ cache_hdl = [k \in 1..SYSINFO_CACHE_LVL_MAX |-> 0]
    /\ smbios_version = NULLPTR
    /\ ret = NoRet
    /\ detects = 0
    /\ calls = <<>>

\* write_smbios_table() up to its loop: the sysinfo device is looked up and
\* detected, the cursor moves past the descriptor
Start ==
    /\ pc = <<"idle", 0>>
    /\ pc' = PcOf(0)
    /\ ctx' = [ctx EXCEPT !.node = ofnode_null, !.dev = (w.dev # "none")]
    /\ detects' = IF w.dev # "none" THEN detects + 1 ELSE detects
    /\ addr' = tables(w)
    /\ len' = 0
    /\ handle' = 0
    /\ ret' = NoRet
    /\ UNCHANGED <<w, mem, out, cache_hdl, smbios_version, calls>>

\* One turn of the loop of write_smbios_table(): the subnode of the method is
\* looked up and the method writes its structure(s) with handle++
Iteration(i) ==
    /\ pc = PcOf(i)
    /\ i < Len(smbios_write_funcs)
    /\ LET method == smbios_write_funcs[i + 1]
           cx == IF method.subnode_name # NOPROP
                 THEN [ctx EXCEPT !.subnode_name = method.subnode_name,
                                  !.node = IF CONFIG_OF_CONTROL
                                           THEN ofnode_find_subnode(w.dt, parent_node(w),
                                                                    method.subnode_name)
                                           ELSE @]
                 ELSE [ctx EXCEPT !.subnode_name = NOPROP]
       IN  \E r \in {CallWriter(method.write, w, addr, handle, WithMem(cx, mem),
                                smbios_version, cache_hdl)} :
               /\ len' = len + r.len
               /\ handle' = handle + 1
               /\ addr' = r.cur
               /\ mem' = r.c.mem
               /\ ctx' = CtxOf(r.c)
               /\ out' = out \o r.recs
               /\ smbios_version' = r.ver
               /\ cache_hdl' = r.hdl
    /\ pc' = PcOf(i + 1)
    /\ UNCHANGED <<w, ret, detects, calls>>

WriteType0 == Iteration(0)
WriteType1 == Iteration(1)
WriteType2 == Iteration(2)
WriteType3 == Iteration(3)
WriteType7 == Iteration(4)
WriteType4 == Iteration(5)
WriteType32 == Iteration(6)
WriteType127 == Iteration(7)

\* write_smbios_table() after its loop: the descriptor is written and the
\* cursor is returned
WriteEntryPoint ==
    /\ pc = PcOf(Len(smbios_write_funcs))
    /\ mem' = WriteEntry(mem, w.start, len, tables(w))
    /\ ret' = [op |-> "write_smbios_table", arg |-> <<w.start>>, val |-> addr]
    /\ pc' = <<"done", 0>>
    /\ UNCHANGED <<w, ctx, addr, len, handle, out, cache_hdl, smbios_version,
                   detects, calls>>

\* smbios_update_version(version), called before or after the build
UpdateVersion ==
    /\ pc \in {<<"idle", 0>>, <<"done", 0>>}
    /\ \E version \in VersionArgs :
         \E r \in {smbios_update_version(mem, smbios_version, version)} :
             /\ mem' = r.mem
             /\ ret' = [op |-> "smbios_update_version", arg |-> version, val |-> r.val]
    /\ UNCHANGED <<w, pc, ctx, addr, len, handle, out, cache_hdl, smbios_version,
                   detects, calls>>

Next ==
    \/ Start
    \/ WriteType0
    \/ WriteType1
    \/ WriteType2
    \/ WriteType3
    \/ WriteType7
    \/ WriteType4
    \/ WriteType32
    \/ WriteType127
    \/ WriteEntryPoint
    \/ UpdateVersion

Spec == Init /\ [][Next]_vars

----------------------------------------------------------------------------
(* Packer runs: smbios_add_string() calls on one freshly reset pool *)

PoolStrs == StrsUpTo(MaxStrLen)

\* a structure has been zeroed up to and including its eos[] bytes and
\* smbios_set_eos() has been called; what follows eos[] is the caller's
InitPool ==
    /\ w \in {World(s, FillAt(s), "none", "fail", 0, "absent", "none", "none",
                      NULLSTR, "none") : s \in StartAddrs}
    /\ pc = <<"pool", 0>>
    /\ mem = MemZero([a \in w.start .. (w.start + MemSize - 1) |-> w.fill],
                     w.start, SMBIOS_STRUCT_EOS_BYTES)
    /\ ctx = [node |-> ofnode_null, dev |-> FALSE, subnode_name |-> NOPROP,
              eos |-> w.start, next_ptr |-> w.start, last_str |-> NULLPTR]
    /\ addr = 0
    /\ len = 0
    /\ handle = 0
    /\ out = <<>>
    /\ cache_hdl = [k \in 1..SYSINFO_CACHE_LVL_MAX |-> 0]
    /\ smbios_version = NULLPTR
    /\ ret = NoRet
    /\ detects = 0
    /\ calls = <<>>

\* smbios_add_string(ctx, str); calls records the string, the number returned
\* and whether pool bytes or pool length changed
AddString ==
    /\ pc = <<"pool", 0>>
    /\ Len(calls) < MaxAdds
    /\ \E str \in PoolStrs :
         \E r \in {smbios_add_string(WithMem(ctx, mem), str)} :
             /\ mem' = r.c.mem
             /\ ctx' = CtxOf(r.c)
             /\ calls' = Append(calls,
                   [str |-> str, ret |-> r.ret,
                    same |-> /\ r.c.mem = mem
                             /\ smbios_string_table_len(r.c) = smbios_string_table_len(ctx)])
    /\ UNCHANGED <<w, pc, addr, len, handle, out, cache_hdl, smbios_version, ret, detects>>

NextPool == AddString

SpecPool == InitPool /\ [][NextPool]_vars

----------------------------------------------------------------------------
(* Property runs: one smbios_add_prop_si() call on a freshly reset pool, in
   the context write_smbios_table() sets up for a section *)

PropWorlds ==
    {x \in Worlds : /\ x.start = 0 /\ x.serial = NULLSTR /\ x.cpu = "none"
                    /\ x.level \in {0, 1} /\ x.blob \in {"ok", "absent"}
                    /\ x.dt \notin {"long", "longer"}}

PropSections == {"system", "baseboard", "chassis"}
PropNames == {"product", "manufacturer", "sku", NOPROP}
PropIds == {SID("NONE"), SID("SYSTEM_PRODUCT"), SID("SYSTEM_MANUFACTURER")}
PropDefaults == {NULLSTR, <<>>, UBootVendor}

InitProp ==
    /\ w \in PropWorlds
    /\ pc = <<"prop", 0>>
    /\ mem = MemZero([a \in w.start .. (w.start + MemSize - 1) |-> w.fill],
                     w.start, SMBIOS_STRUCT_EOS_BYTES)
    /\ \E section \in PropSections :
         ctx = [node |-> ofnode_find_subnode(w.dt, parent_node(w), section),
                dev |-> (w.dev # "none"), subnode_name |-> section,
                eos |-> w.start, next_ptr |-> w.start, last_str |-> NULLPTR]
    /\ addr = 0
    /\ len = 0
    /\ handle = 0
    /\ out = <<>>
    /\ cache_hdl = [k \in 1..SYSINFO_CACHE_LVL_MAX |-> 0]
    /\ smbios_version = NULLPTR
    /\ ret = NoRet
    /\ detects = 0
    /\ calls = <<>>

\* smbios_add_prop_si(ctx, prop, sysinfo_id, dval); calls records the
\* arguments, the number returned and the string ctx->last_str points to
\* when a string was added
AddProp ==
    /\ pc = <<"prop", 0>>
    /\ \E prop \in PropNames, id \in PropIds, dval \in PropDefaults :
         \E r \in {smbios_add_prop_si(w, WithMem(ctx, mem), prop, id, dval)} :
             /\ mem' = r.c.mem
             /\ ctx' = CtxOf(r.c)
             /\ calls' = Append(calls,
                   [prop |-> prop, id |-> id, dval |-> dval, ret |-> r.ret,
                    used |-> IF r.ret = 0 THEN NULLSTR
                             ELSE CStr(r.c.mem, r.c.last_str)])
    /\ pc' = <<"prop", 1>>
    /\ UNCHANGED <<w, addr, len, handle, out, cache_hdl, smbios_version, ret, detects>>

NextProp == AddProp

SpecProp == InitProp /\ [][NextProp]_vars

----------------------------------------------------------------------------
(* Properties *)

\* write_smbios_table() has returned
Done == pc = <<"done", 0>>

RECURSIVE SumLen(_)
SumLen(recs) == IF recs = <<>> THEN 0 ELSE Head(recs).len + SumLen(Tail(recs))

\* the little-endian integer in the n bytes at p
RECURSIVE LEValue(_, _, _)
LEValue(m, p, n) == IF n = 0 THEN 0 ELSE m[p] + 256 * LEValue(m, p + 1, n - 1)

TypesOf(recs) == [i \in DOMAIN recs |-> recs[i].t["type"]]

\* the value the level-count fact reads as in this build: the driver's when
\* the device answers, 0 otherwise
LevelFact ==
    IF w.dev # "none" /\ sysinfo_get_int(w, SID("CACHE_LEVEL")).ok
    THEN w.level ELSE 0

\* the cache level (from 0) of the i-th emitted structure, a cache structure
CacheLevelOf(i) == Cardinality({j \in 1..(i - 1) : out[j].t["type"] = 7})

\* the assignments that fill the i-th emitted structure
OpsOf(i) ==
    CASE out[i].t["type"] = 0 -> Type0Head \o Type0Tail
      [] out[i].t["type"] = 1 -> Type1Head \o Type1Serial \o Type1Tail
      [] out[i].t["type"] = 2 -> Type2Ops
      [] out[i].t["type"] = 3 -> Type3Ops
      [] out[i].t["type"] = 7 -> Type7Ops(CacheLevelOf(i))
      [] out[i].t["type"] = 4 -> Type4Head \o Type4Mid \o Type4Tail
      [] OTHER -> <<>>

\* the node of the configuration tree that describes the i-th emitted
\* structure
TreeNodeOf(i) ==
    CASE out[i].t["type"] = 0 -> <<"smbios", "bios">>
      [] out[i].t["type"] = 1 -> <<"smbios", "system">>
      [] out[i].t["type"] = 2 -> <<"smbios", "baseboard">>
      [] out[i].t["type"] = 3 -> <<"smbios", "chassis">>
      [] out[i].t["type"] = 7 -> <<"smbios", "cache", CacheNodeName(CacheLevelOf(i))>>
      [] out[i].t["type"] = 4 -> <<"smbios", "processor">>
      [] OTHER -> ofnode_null

\* C1: in a completed run of write_smbios_table, whatever the level-count
\* fact reads as, no two emitted structures carry the same handle.
C1_HandlesPairwiseDistinct ==
    Done => \A i, j \in DOMAIN out :
                i # j => out[i].t["handle"] # out[j].t["handle"]

\* the index of the first call that added the string of call k
FirstAdd(k) == CHOOSE j \in 1..k :
                   /\ calls[j].str = calls[k].str
                   /\ \A i \in 1..(j - 1) : calls[i].str # calls[k].str

\* C2: over any sequence of smbios_add_string calls with non-null strings on
\* one pool, the k-th distinct string gets number k, a string added again
\* gets the number it was first given, and adding it again changes neither
\* the pool bytes nor the pool length.
C2_AddStringNumbers ==
    pc = <<"pool", 0>> =>
        \A k \in DOMAIN calls :
            /\ calls[k].ret = Cardinality({calls[i].str : i \in 1..FirstAdd(k)})
            /\ FirstAdd(k) < k => calls[k].same

\* the bytes of a pool that holds the distinct strings of the first k calls,
\* each followed by one \0
RECURSIVE StoredBytes(_)
StoredBytes(k) ==
    IF k = 0 THEN <<>>
    ELSE StoredBytes(k - 1) \o (IF FirstAdd(k) < k THEN <<>>
                                ELSE calls[k].str \o <<0>>)

PoolBytes == IF calls = <<>> THEN <<0, 0>> ELSE StoredBytes(Len(calls)) \o <<0>>

\* C3: after any sequence of smbios_add_string calls on a freshly reset
\* pool, smbios_string_table_len is 2 for the empty pool of two \0 bytes and
\* otherwise the sum of (length + 1) over the stored strings plus 1, the byte
\* at next_ptr is \0 and every stored string is followed by exactly one \0.
C3_StringTableLen ==
    pc = <<"pool", 0>> =>
        /\ smbios_string_table_len(ctx) = Len(PoolBytes)
        /\ mem[ctx.next_ptr] = 0
        /\ \A i \in 1..Len(PoolBytes) : mem[ctx.eos + i - 1] = PoolBytes[i]

\* C4: in every table the chassis structure's handle is the board
\* structure's handle + 1, and the chassis_handle stored in the board
\* structure is the handle of the chassis structure emitted.
C4_BoardPointsAtChassis ==
    \A i, j \in DOMAIN out :
        out[i].t["type"] = 2 /\ out[j].t["type"] = 3 =>
            /\ out[j].t["handle"] = out[i].t["handle"] + 1
            /\ out[i].t["chassis_handle"] = out[j].t["handle"]

C4_Witness ==
    /\ Done
    /\ \E i \in DOMAIN out : /\ out[i].t["type"] = 2
                             /\ i + 1 \in DOMAIN out
                             /\ out[i + 1].t["type"] = 3
                             /\ out[i].t["chassis_handle"] = 3

\* C5: once write_smbios_table has returned, the bytes of the entry-point
\* descriptor, checksum included, sum to 0 modulo 256 for every table size
\* and table address, and they stay what the build wrote: the anchor, the
\* length, the versions, the table size and the table address.
C5_EntryChecksum ==
    Done =>
        /\ ByteSum(mem, w.start, SizeofEntry) % 256 = 0
        /\ [i \in 1..5 |-> mem[w.start + i - 1]] = Anchor
        /\ mem[w.start + OffLength] = SizeofEntry
        /\ mem[w.start + OffLength + 1] = SMBIOS_MAJOR_VER
        /\ mem[w.start + OffLength + 2] = SMBIOS_MINOR_VER
        /\ LEValue(mem, w.start + OffTableMaxSize, 4) = len
        /\ LEValue(mem, w.start + OffTableAddress, 8) = tables(w)

C5_Witness ==
    /\ Done
    /\ ret.op = "smbios_update_version"
    /\ ret.val = 0
    /\ w.start # 0
    /\ mem[w.start + OffChecksum] # 0
    /\ len > 255

\* the string gd->smbios_version points to
StoredVersion == IF smbios_version = NULLPTR THEN <<>> ELSE CStr(mem, smbios_version)

\* C6 as stated: smbios_update_version(new) succeeds exactly when a version
\* string has been recorded and len(new) <= len(stored version); it returns
\* -ENOSPC when len(new) is greater and -ENOENT when none is recorded, and in
\* both error cases no byte is modified.
C6_UpdateByLength ==
    [][UpdateVersion =>
        /\ (ret'.val = 0) <=> (smbios_version # NULLPTR
                               /\ Len(ret'.arg) <= Len(StoredVersion))
        /\ (smbios_version # NULLPTR /\ Len(ret'.arg) > Len(StoredVersion))
              => ret'.val = -ENOSPC
        /\ smbios_version = NULLPTR => ret'.val = -ENOENT
        /\ ret'.val # 0 => mem' = mem]_vars

\* C6 amended: both lengths count at most SMBIOS_STR_MAX characters.
\* smbios_update_version(new) succeeds exactly when a version string has
\* been recorded and min(len(new), SMBIOS_STR_MAX) <= min(len(stored),
\* SMBIOS_STR_MAX); it returns -ENOSPC when the capped len(new) is greater
\* and -ENOENT when none is recorded, and in both error cases no byte is
\* modified.
C6_UpdateByCappedLength ==
    [][UpdateVersion =>
        /\ (ret'.val = 0) <=> (smbios_version # NULLPTR
                               /\ Min(Len(ret'.arg), SMBIOS_STR_MAX)
                                     <= Min(Len(StoredVersion), SMBIOS_STR_MAX))
        /\ (smbios_version # NULLPTR
            /\ Min(Len(ret'.arg), SMBIOS_STR_MAX) > Min(Len(StoredVersion), SMBIOS_STR_MAX))
              => ret'.val = -ENOSPC
        /\ smbios_version = NULLPTR => ret'.val = -ENOENT
        /\ ret'.val # 0 => mem' = mem]_vars

C6_Witness ==
    /\ Done
    /\ ret.op = "smbios_update_version"
    /\ ret.val = 0
    /\ Len(ret.arg) > SMBIOS_STR_MAX
    /\ Len(StoredVersion) = SMBIOS_STR_MAX

\* C7: when the level-count fact reads as SYSINFO_CACHE_LVL_MAX + 1,
\* smbios_write_type7 emits no cache structure, returns 0 and leaves the
\* cursor where the chassis structure ended, and the firmware, system, board,
\* chassis, processor, boot and end-marker structures are all emitted.
C7_TooManyLevels ==
    LevelFact = SYSINFO_CACHE_LVL_MAX + 1 =>
        /\ \A i \in DOMAIN out : out[i].t["type"] # 7
        /\ pc = PcOf(5) => /\ TypesOf(out) = <<0, 1, 2, 3>>
                           /\ addr = out[4].at + out[4].len
                           /\ len = SumLen(out)
        /\ Done => TypesOf(out) = <<0, 1, 2, 3, 4, 32, 127>>

C7_Witness ==
    /\ Done
    /\ LevelFact = SYSINFO_CACHE_LVL_MAX + 1
    /\ Len(out) = 7
    /\ out[5].at = out[4].at + out[4].len

\* C8: for every build, table_maximum_size in the entry-point descriptor is
\* the sum of the lengths the emitted structures returned and is the address
\* write_smbios_table returned minus the table start address, and the
\* returned address is the one right after the end-marker structure.
C8_TableSize ==
    Done =>
        /\ LEValue(mem, w.start + OffTableMaxSize, 4) = SumLen(out)
        /\ SumLen(out) = addr - tables(w)
        /\ out[Len(out)].t["type"] = 127
        /\ addr = out[Len(out)].at + out[Len(out)].len
        /\ ret.op = "write_smbios_table" => ret.val = addr

C8_Witness ==
    /\ Done
    /\ ret.op = "write_smbios_table"
    /\ Cardinality({i \in DOMAIN out : out[i].t["type"] = 7}) = 3
    /\ w.start # 0
    /\ ret.val = out[Len(out)].at + SizeOf(127)

\* the caller's default, none when it is NULL or empty
DefaultOf(call) == IF call.dval = <<>> THEN NULLSTR ELSE call.dval

OrDefault(str, call) == IF str = NULLSTR \/ str = <<>> THEN DefaultOf(call) ELSE str

ProbeAnswersStr(call) ==
    ctx.dev /\ call.id # SID("NONE") /\ sysinfo_get_str(w, call.id).ok

UsesSubtree(call) ==
    ~ProbeAnswersStr(call) /\ call.prop # NOPROP /\ ofnode_valid(ctx.node)

UsesRemap(call) ==
    /\ ~ProbeAnswersStr(call) /\ call.prop # NOPROP /\ ~ofnode_valid(ctx.node)
    /\ convert_sysinfo_to_dt(ctx.subnode_name, call.prop) # NOMAP

RootStringOf(call) ==
    ofnode_root_string(w.root, convert_sysinfo_to_dt(ctx.subnode_name, call.prop).dt_str)

C10_IntFromTreeWithoutProbe ==
    Done =>
        \A i \in DOMAIN out :
            \A k \in DOMAIN OpsOf(i) :
                (/\ OpsOf(i)[k].k = "int"
                 /\ OpsOf(i)[k].prop # NOPROP
                 /\ ~(w.dev # "none" /\ sysinfo_get_int(w, OpsOf(i)[k].id).ok)
                 /\ ofnode_read_u32(w.dt, TreeNodeOf(i), OpsOf(i)[k].prop).ok)
                => out[i].t[OpsOf(i)[k].f] =
                       ofnode_read_u32(w.dt, TreeNodeOf(i), OpsOf(i)[k].prop).val

\* the number of cache structures emitted so far
CacheCount == Cardinality({i \in DOMAIN out : out[i].t["type"] = 7})

\* the types of a finished table with k cache structures
TableTypes(k) == <<0, 1, 2, 3>> \o Rep(7, k) \o <<4, 32, 127>>

\* C11: in every build the writers run once each in the order firmware,
\* system, board, chassis, cache (all levels), processor, boot, end marker:
\* the chassis structure comes right after the board structure, every cache
\* structure before the processor structure, and the end marker is last.
C11_WriterOrder ==
    /\ Len(out) <= Len(TableTypes(CacheCount))
    /\ TypesOf(out) = SubSeq(TableTypes(CacheCount), 1, Len(out))
    /\ \A i \in 0..3 : pc = PcOf(i) => Len(out) = i
    /\ pc = PcOf(5) => Len(out) = 4 + CacheCount
    /\ pc = PcOf(6) => Len(out) = 5 + CacheCount
    /\ pc = PcOf(7) => Len(out) = 6 + CacheCount
    /\ (pc = PcOf(8) \/ Done) => TypesOf(out) = TableTypes(CacheCount)

C11_Witness ==
    /\ Done
    /\ CacheCount = 2
    /\ TypesOf(out) = <<0, 1, 2, 3, 7, 7, 4, 32, 127>>

\* the cache-handle fields of a processor structure, by level 1..3
CacheHandleFields == <<"l1_cache_handle", "l2_cache_handle", "l3_cache_handle">>

\* the driver's cache-handle array is there and has the expected size
BlobUsable ==
    /\ sysinfo_get_data(w, SID("CACHE_HANDLE")).ok
    /\ sysinfo_get_data(w, SID("CACHE_HANDLE")).size = SYSINFO_CACHE_LVL_MAX * SizeofU16

\* the emitted cache structures of level k (1..3)
CacheStructsOf(k) ==
    {i \in DOMAIN out : out[i].t["type"] = 7 /\ CacheLevelOf(i) = k - 1}

\* C12: after a build each of the processor structure's cache-handle fields
\* (L1, L2, L3) is the 'no cache' sentinel or the handle of the cache
\* structure emitted for that level in the same build, and it is the sentinel
\* whenever the driver's array is absent, has another size than 3 x 16 bits,
\* or no cache structure was emitted for the level.
C12_ProcessorCacheHandles ==
    Done =>
        \A p \in DOMAIN out :
            out[p].t["type"] = 4 =>
                \A k \in 1..SYSINFO_CACHE_LVL_MAX :
                    /\ \/ out[p].t[CacheHandleFields[k]] = SMBIOS_CACHE_HANDLE_NONE
                       \/ \E i \in CacheStructsOf(k) :
                              out[p].t[CacheHandleFields[k]] = out[i].t["handle"]
                    /\ (~BlobUsable \/ CacheStructsOf(k) = {})
                          => out[p].t[CacheHandleFields[k]] = SMBIOS_CACHE_HANDLE_NONE

C12_Witness ==
    /\ Done
    /\ BlobUsable
    /\ CacheCount = 2
    /\ \E p \in DOMAIN out :
          /\ out[p].t["type"] = 4
          /\ out[p].t["l1_cache_handle"] = 4
          /\ out[p].t["l2_cache_handle"] = 5
          /\ out[p].t["l3_cache_handle"] = SMBIOS_CACHE_HANDLE_NONE

\* C13: the number of cache structures a build emits is the value of the
\* level-count fact whenever that value lies between 1 and
\* SYSINFO_CACHE_LVL_MAX inclusive, and it is zero only when the value is
\* beyond the maximum.
C13_CacheStructCount ==
    Done =>
        /\ LevelFact \in 1..SYSINFO_CACHE_LVL_MAX => CacheCount = LevelFact
        /\ CacheCount = 0 => LevelFact > SYSINFO_CACHE_LVL_MAX

\* string number n (from 1) of the string area at p
RECURSIVE NthStr(_, _, _)
NthStr(m, p, n) == IF n = 1 THEN CStr(m, p) ELSE NthStr(m, p + strlen(m, p) + 1, n - 1)

\* the string the string field f of the i-th emitted structure refers to,
\* NULLSTR when the field is 0
FieldStr(i, f) ==
    IF out[i].t[f] = 0 THEN NULLSTR
    ELSE NthStr(mem, out[i].at + out[i].t["length"], out[i].t[f])

\* C14: in the processor writer, when the CPU device is present and supplies
\* a vendor and a description string, the processor manufacturer and version
\* strings written are the CPU device's, whatever the sysinfo device or the
\* devicetree hold for them.
C14_CpuStringsFirst ==
    Done =>
        \A p \in DOMAIN out :
            (/\ out[p].t["type"] = 4
             /\ CpuOf(w).present
             /\ CpuOf(w).vendor # NULLSTR
             /\ CpuOf(w).desc # NULLSTR)
            => /\ FieldStr(p, "processor_manufacturer") = CpuOf(w).vendor
               /\ FieldStr(p, "processor_version") = CpuOf(w).desc

\* the node write_smbios_table() finds for the i-th emitted structure:
\* there is none without a sysinfo device
CtxNodeOf(i) ==
    IF w.dev # "none" /\ TreeNodeOf(i) \in DtNodes(w.dt) THEN TreeNodeOf(i) ELSE ofnode_null

\* what the Resolver gives the i-th emitted structure for (prop, id, dval):
\* the sysinfo value, else the subtree's property, else the remapped root
\* property, else the default
Resolved(i, prop, id, dval) ==
    IF w.dev # "none" /\ id # SID("NONE") /\ sysinfo_get_str(w, id).ok
    THEN sysinfo_get_str(w, id).val
    ELSE IF prop = NOPROP THEN dval
    ELSE LET str == IF ofnode_valid(CtxNodeOf(i))
                    THEN ofnode_read_string(w.dt, CtxNodeOf(i), prop)
                    ELSE get_str_from_dt(w.root,
                             convert_sysinfo_to_dt(TreeNodeOf(i)[2], prop))
         IN  IF str = NULLSTR \/ str = <<>> THEN dval ELSE str

\* C15: in the system writer, when the environment holds "serial#", the
\* serial-number field refers to a pool string equal to it whatever the
\* sysinfo device and the devicetree report for the serial, and the UUID
\* field holds it cut to what fits the field with its terminator; when the
\* environment holds none, the serial number is the Resolver's (a sysinfo
\* serial that is empty aside) and the UUID field stays zero.
C15_EnvSerial ==
    Done =>
        \A i \in DOMAIN out :
            out[i].t["type"] = 1 =>
                IF w.serial # NULLSTR
                THEN /\ FieldStr(i, "serial_number") = w.serial
                     /\ out[i].t["uuid"] =
                            SubSeq(w.serial, 1,
                                   IF Len(w.serial) < SizeofUuid THEN Len(w.serial)
                                   ELSE SizeofUuid - 1)
                ELSE /\ out[i].t["uuid"] = 0
                     /\ w.probe # "empty" =>
                            FieldStr(i, "serial_number") =
                                Resolved(i, "serial", SID("SYSTEM_SERIAL"), NULLSTR)

C15_Witness ==
    /\ Done
    /\ Len(w.serial) > SizeofUuid
    /\ w.dev = "ready"
    /\ sysinfo_get_str(w, SID("SYSTEM_SERIAL")).ok
    /\ ofnode_read_string(w.dt, <<"smbios", "system">>, "serial") # NULLSTR
    /\ \E i \in DOMAIN out : /\ out[i].t["type"] = 1
                             /\ FieldStr(i, "serial_number") = w.serial
                             /\ Len(out[i].t["uuid"]) = SizeofUuid - 1

\* C16: for every entry of sysinfo_to_dt[] whose root property holds a list
\* of n >= 1 comma-separated elements, get_str_from_dt() gives the element at
\* zero-based index max when max < n and the last element when max >= n.
C16_TokenAtIndexMax ==
    \A k \in DOMAIN sysinfo_to_dt :
        LET nprop  == sysinfo_to_dt[k]
            dt_str == ofnode_root_string(w.root, nprop.dt_str)
        IN  dt_str # NULLSTR /\ Len(Tokens(dt_str)) >= 1 =>
                LET toks == Tokens(dt_str)
                    n    == Len(toks)
                IN  get_str_from_dt(w.root, nprop) =
                        IF nprop.max < n THEN toks[nprop.max + 1] ELSE toks[n]

\* the value smbios_add_prop_si() obtains for a call before it turns to the
\* default: the sysinfo string when that read succeeds, else the property of
\* the subtree or of the root node, NULLSTR where nothing is looked up
SourceValue(call) ==
    IF ProbeAnswersStr(call) THEN sysinfo_get_str(w, call.id).val
    ELSE IF call.prop = NOPROP THEN NULLSTR
    ELSE IF ofnode_valid(ctx.node) THEN ofnode_read_string(w.dt, ctx.node, call.prop)
    ELSE get_str_from_dt(w.root, convert_sysinfo_to_dt(ctx.subnode_name, call.prop))

\* C17: a call of smbios_add_prop_si() with a non-empty default returns the
\* number of the default whenever the value obtained is missing or the empty
\* string, a sysinfo read that succeeds with an empty string included; and
\* the string a call stores in the pool is never the empty string.
C17_EmptyGivesDefault ==
    pc = <<"prop", 1>> =>
        \A k \in DOMAIN calls :
            /\ (/\ calls[k].dval # NULLSTR /\ calls[k].dval # <<>>
                /\ SourceValue(calls[k]) \in {NULLSTR, <<>>})
               => (calls[k].ret # 0 /\ calls[k].used = calls[k].dval)
            /\ calls[k].ret # 0 => calls[k].used # <<>>

\* the Resolver calls behind the i-th emitted structure, those of
\* smbios_write_type4_dm() included
FactsOf(i) ==
    IF out[i].t["type"] = 4
    THEN OpsOf(i) \o << S("processor_manufacturer", "manufacturer",
                          SID("PROCESSOR_MANUFACT"), CpuOf(w).vendor),
                        S("processor_version", "version",
                          SID("PROCESSOR_VERSION"), CpuOf(w).desc) >>
    ELSE OpsOf(i)

\* the steps of write_smbios_table()
BuildStep ==
    \/ Start
    \/ \E i \in 0..(Len(smbios_write_funcs) - 1) : Iteration(i)
    \/ WriteEntryPoint

\* C18: with a sysinfo device, sysinfo_detect() is called once and before
\* any writer; whatever it and the later reads return, the build can always
\* take its next step until it has returned, all writers have then run and
\* the descriptor is written, and every fact whose sysinfo read failed holds
\* the devicetree's value or the default.
C18_ErrorsSwallowed ==
    /\ pc = <<"idle", 0>> => detects = 0
    /\ (pc # <<"idle", 0>> \/ out # <<>>) => detects = IF w.dev # "none" THEN 1 ELSE 0
    /\ ~Done => ENABLED BuildStep
    /\ (Done /\ ret.op = "write_smbios_table") =>
        /\ ret.val = addr
        /\ TypesOf(out) = TableTypes(CacheCount)
        /\ [i \in 1..5 |-> mem[w.start + i - 1]] = Anchor
        /\ LEValue(mem, w.start + OffTableAddress, 8) = tables(w)
        /\ w.dev # "none" =>
             \A i \in DOMAIN out :
                 \A k \in DOMAIN FactsOf(i) :
                     LET o == FactsOf(i)[k]
                     IN  IF o.k = "str"
                         THEN (/\ ~sysinfo_get_str(w, o.id).ok
                               /\ ~(o.f = "serial_number" /\ out[i].t["type"] = 1
                                    /\ w.serial # NULLSTR))
                              => FieldStr(i, o.f) = Resolved(i, o.prop, o.id, o.dval)
                         ELSE ~sysinfo_get_int(w, o.id).ok
                              => out[i].t[o.f] =
                                    IF /\ o.prop # NOPROP
                                       /\ ofnode_valid(CtxNodeOf(i))
                                       /\ ofnode_read_u32(w.dt, CtxNodeOf(i), o.prop).ok
                                    THEN ofnode_read_u32(w.dt, CtxNodeOf(i), o.prop).val
                                    ELSE 0

C18_Witness ==
    /\ Done
    /\ ret.op = "write_smbios_table"
    /\ w.dev = "notready"
    /\ detects = 1
    /\ w.dt = "sparse"
    /\ w.root = "present"
    /\ \E i \in DOMAIN out :
         /\ out[i].t["type"] = 1
         /\ FieldStr(i, "manufacturer") # NULLSTR
         /\ FieldStr(i, "serial_number") = NULLSTR
    /\ \E i \in DOMAIN out : out[i].t["type"] = 0 /\ FieldStr(i, "vendor") = UBootVendor

\* C19 as stated: a successful smbios_update_version(new) with
\* n = Len(new) <= m = Len(stored string) replaces exactly the first n bytes
\* of the stored string by new and changes no other byte, no field of a
\* structure and not the stored string's length.
C19_UpdateInPlace ==
    [][(UpdateVersion /\ ret'.val = 0 /\ Len(ret'.arg) <= Len(StoredVersion)) =>
        /\ mem' = MemWrite(mem, smbios_version, ret'.arg)
        /\ out' = out
        /\ Len(StoredVersion') = Len(StoredVersion)]_vars

\* C19: a successful smbios_update_version(new) with n = Len(new) <= m =
\* Len(stored string) replaces exactly the first min(n, SMBIOS_STR_MAX) bytes
\* of the stored string by those of new and changes no other byte: the rest
\* of the old string, its terminator, the strings after it, the descriptor
\* and every field of every structure stay, and the stored length is still m.
C19_UpdateInPlaceCapped ==
    [][(UpdateVersion /\ ret'.val = 0 /\ Len(ret'.arg) <= Len(StoredVersion)) =>
        /\ mem' = MemWrite(mem, smbios_version,
                           SubSeq(ret'.arg, 1, Min(Len(ret'.arg), SMBIOS_STR_MAX)))
        /\ out' = out
        /\ Len(StoredVersion') = Len(StoredVersion)]_vars

C19_Witness ==
    /\ Done
    /\ ret.op = "smbios_update_version"
    /\ ret.val = 0
    /\ Len(ret.arg) > 0
    /\ Len(ret.arg) < Len(StoredVersion)
    /\ SubSeq(StoredVersion, 1, Len(ret.arg)) = ret.arg
    /\ StoredVersion[Len(ret.arg) + 1] # ret.arg[1]
    /\ mem[smbios_version + Len(StoredVersion) + 1] # 0

\* the enclosure block of enum sysinfo_id
EnclosureIds == SID("ENCLOSURE_MANUFACTURER") .. SID("ENCLOSURE_SKU")

\* C20: every id the chassis writer hands to sysinfo lies in the enclosure
\* block; the chassis asset tag is the sysinfo string of the enclosure
\* asset-tag id when sysinfo has one, so that a device with different asset
\* tags for board and chassis gives the two structures different asset-tag
\* strings.
C20_ChassisFacts ==
    (Done /\ ret.op = "write_smbios_table") =>
        \A i \in DOMAIN out :
            out[i].t["type"] = 3 =>
                /\ \A k \in DOMAIN OpsOf(i) : OpsOf(i)[k].id \in EnclosureIds
                /\ (/\ w.dev # "none"
                    /\ sysinfo_get_str(w, SID("ENCLOSURE_ASSET_TAG")).ok
                    /\ sysinfo_get_str(w, SID("ENCLOSURE_ASSET_TAG")).val # <<>>)
                   => FieldStr(i, "asset_tag_number") =
                          sysinfo_get_str(w, SID("ENCLOSURE_ASSET_TAG")).val
                /\ \A j \in DOMAIN out :
                       (/\ out[j].t["type"] = 2
                        /\ w.dev # "none"
                        /\ sysinfo_get_str(w, SID("ENCLOSURE_ASSET_TAG")).ok
                        /\ sysinfo_get_str(w, SID("BASEBOARD_ASSET_TAG")).ok
                        /\ sysinfo_get_str(w, SID("ENCLOSURE_ASSET_TAG")).val #
                               sysinfo_get_str(w, SID("BASEBOARD_ASSET_TAG")).val)
                       => FieldStr(j, "asset_tag_number") # FieldStr(i, "asset_tag_number")

\* C21: whatever the level count (negative, 0..2, 3 or more), the cache
\* writer stores a handle in the driver's array only at slots
\* 0..SYSINFO_CACHE_LVL_MAX-1 and only when the array is reported with
\* exactly SYSINFO_CACHE_LVL_MAX 16-bit slots; it emits at most
\* SYSINFO_CACHE_LVL_MAX cache structures, and the slot of a level holds the
\* handle of the structure emitted for that level.
C21_CacheHandleStores ==
    /\ DOMAIN cache_hdl = 1..SYSINFO_CACHE_LVL_MAX
    /\ ~BlobUsable => \A k \in DOMAIN cache_hdl : cache_hdl[k] = 0
    /\ CacheCount <= SYSINFO_CACHE_LVL_MAX
    /\ \A i \in DOMAIN out : out[i].t["type"] = 7 => CacheLevelOf(i) < SYSINFO_CACHE_LVL_MAX
    /\ \A k \in 1..SYSINFO_CACHE_LVL_MAX :
         /\ Cardinality(CacheStructsOf(k)) <= 1
         /\ cache_hdl[k] # 0 => \E i \in CacheStructsOf(k) : cache_hdl[k] = out[i].t["handle"]
         /\ BlobUsable => \A i \in CacheStructsOf(k) : cache_hdl[k] = out[i].t["handle"]

C21_Witness ==
    /\ Done
    /\ BlobUsable
    /\ LevelFact = SYSINFO_CACHE_LVL_MAX - 1
    /\ CacheCount = SYSINFO_CACHE_LVL_MAX
    /\ \A k \in 1..SYSINFO_CACHE_LVL_MAX :
         \E i \in CacheStructsOf(k) : out[i].t["handle"] = cache_hdl[k] /\ cache_hdl[k] = 3 + k

====
